---------------------------- MODULE Spec2Model ----------------------------
(***************************************************************************)
(* Vocabulary Quadrant: a React single-page application (src/App.tsx)      *)
(* that looks a word up through one remote completion call                 *)
(* (src/unnamed/part_000, imported as ./services/geminiService) and keeps  *)
(* a list of saved words in localStorage.                                  *)
(*                                                                         *)
(* Representation.                                                         *)
(*   string        a sequence of one-character strings, <<"A", " ">>;      *)
(*                 fixed texts of the program are one-symbol sequences     *)
(*   T | null      Null (the empty sequence) or Some(v) (<<v>>)            *)
(*   array         a sequence                                              *)
(*   object        a record holding exactly the keys that are present      *)
(*   JSON text     a sequence of tokens, each a sequence of strings:       *)
(*                 <<"[">>, <<"{">>, <<":">>, ... and <<"str", c1, .. cn>> *)
(***************************************************************************)
EXTENDS Bags, FiniteSets, Integers, Sequences, TLC

(***************************************************************************)
(* Bounds of the model.                                                    *)
(***************************************************************************)
\* MaxSaved caps the saved collection.  The code has no cap; the words of a
\* specification are at most three and a saved word is not saved again, so
\* the cap disables no save that the code makes.
MaxSaved == 3
MaxInflight == 2

Null == <<>>
Some(v) == <<v>>

(***************************************************************************)
(* Strings.                                                                *)
(***************************************************************************)
\* what the user types into the search box, and into the "Add your own..." box
Inputs == { <<" ">>, <<" ", "A">> }
SimilarInputs == { <<"A", " ">> }

IsSpace(c) == c = " "

RECURSIVE TrimStart(_)
TrimStart(s) ==
    IF s # <<>> /\ IsSpace(Head(s)) THEN TrimStart(Tail(s)) ELSE s

RECURSIVE TrimEnd(_)
TrimEnd(s) ==
    IF s # <<>> /\ IsSpace(s[Len(s)]) THEN TrimEnd(SubSeq(s, 1, Len(s) - 1))
    ELSE s

Trim(s) == TrimEnd(TrimStart(s))

LowerChar(c) == IF c = "A" THEN "a" ELSE IF c = "B" THEN "b" ELSE c

ToLowerCase(s) == [i \in 1..Len(s) |-> LowerChar(s[i])]

Includes(arr, x) == \E i \in 1..Len(arr) : arr[i] = x

Contains(s, sub) ==
    \E i \in 1..(Len(s) + 1) :
        /\ i + Len(sub) - 1 <= Len(s)
        /\ SubSeq(s, i, i + Len(sub) - 1) = sub

(***************************************************************************)
(* JSON.stringify, directed by the types WordDetails and SavedWord of      *)
(* which the model keeps the fields the code reads.                        *)
(***************************************************************************)
StrTok(s) == <<"str">> \o s
KeyTok(k) == <<"str", k>>

RECURSIVE JoinComma(_)
JoinComma(parts) ==
    IF parts = <<>> THEN <<>>
    ELSE IF Len(parts) = 1 THEN parts[1]
    ELSE parts[1] \o << <<",">> >> \o JoinComma(Tail(parts))

StringifyArray(parts) == << <<"[">> >> \o JoinComma(parts) \o << <<"]">> >>
StringifyObject(members) == << <<"{">> >> \o JoinComma(members) \o << <<"}">> >>
Member(k, text) == << KeyTok(k), <<":">> >> \o text

StringifyString(s) == << StrTok(s) >>
StringifyStrings(a) == StringifyArray([i \in 1..Len(a) |-> StringifyString(a[i])])
StringifyWordItem(o) == StringifyObject(<< Member("word", StringifyString(o.word)) >>)
StringifyWordItems(a) == StringifyArray([i \in 1..Len(a) |-> StringifyWordItem(a[i])])
StringifyEtymology(e) ==
    StringifyObject(<< Member("root", StringifyString(e.root)),
                       Member("relatedWords", StringifyWordItems(e.relatedWords)) >>)

DetailKeys ==
    <<"error", "syllabification", "etymology", "synonyms", "forms", "confusableWords">>

StringifyField(d, k) ==
    CASE k = "error" -> StringifyString(d[k])
      [] k = "syllabification" -> StringifyString(d[k])
      [] k = "etymology" -> StringifyEtymology(d[k])
      [] k = "synonyms" -> StringifyWordItems(d[k])
      [] k = "forms" -> StringifyWordItems(d[k])
      [] k = "confusableWords" -> StringifyWordItems(d[k])

StringifyDetails(d) ==
    LET present == SelectSeq(DetailKeys, LAMBDA k : k \in DOMAIN d)
    IN  StringifyObject([i \in 1..Len(present) |->
                            Member(present[i], StringifyField(d, present[i]))])

StringifySavedWord(sw) ==
    StringifyObject(<< Member("word", StringifyString(sw.word)),
                       Member("details", StringifyDetails(sw.details)),
                       Member("similarWords", StringifyStrings(sw.similarWords)) >>)

JsonStringify(coll) ==
    StringifyArray([i \in 1..Len(coll) |-> StringifySavedWord(coll[i])])

(***************************************************************************)
(* JSON.parse: recursive descent over the tokens, in the order of the      *)
(* parser of V8.  The result is [ok, node, next, why]; ok = FALSE is the   *)
(* SyntaxError, `why` what the parser missed and `next` the token it       *)
(* stopped at.  A node is a parsed JavaScript value with its type:         *)
(* [kind, val], kind one of "str", "null", "arr" (val a sequence of        *)
(* nodes), "obj" (val a function from the keys present to nodes), and      *)
(* "undefined" for a property that is not there.  A property name is any   *)
(* string; the object is keyed by the symbol that spells it (Name).        *)
(***************************************************************************)
\* the characters of a symbol, and the symbol that a text spells
Spell(sym) ==
    CASE sym = "error" ->
            <<"e", "r", "r", "o", "r">>
      [] sym = "syllabification" ->
            <<"s", "y", "l", "l", "a", "b", "i", "f", "i", "c", "a", "t", "i", "o", "n">>
      [] sym = "etymology" ->
            <<"e", "t", "y", "m", "o", "l", "o", "g", "y">>
      [] sym = "synonyms" ->
            <<"s", "y", "n", "o", "n", "y", "m", "s">>
      [] sym = "forms" ->
            <<"f", "o", "r", "m", "s">>
      [] sym = "confusableWords" ->
            <<"c", "o", "n", "f", "u", "s", "a", "b", "l", "e", "W", "o", "r", "d", "s">>
      [] sym = "root" ->
            <<"r", "o", "o", "t">>
      [] sym = "relatedWords" ->
            <<"r", "e", "l", "a", "t", "e", "d", "W", "o", "r", "d", "s">>
      [] sym = "word" ->
            <<"w", "o", "r", "d">>
      [] sym = "details" ->
            <<"d", "e", "t", "a", "i", "l", "s">>
      [] sym = "similarWords" ->
            <<"s", "i", "m", "i", "l", "a", "r", "W", "o", "r", "d", "s">>
      [] sym = "not a word" ->
            <<"n", "o", "t", " ", "a", " ", "w", "o", "r", "d">>
      [] sym = "null" ->
            <<"n", "u", "l", "l">>
      [] OTHER -> <<sym>>

RECURSIVE SpellAll(_)
SpellAll(symbols) ==
    IF symbols = <<>> THEN <<>> ELSE Spell(Head(symbols)) \o SpellAll(Tail(symbols))

Symbols ==
    {"error", "syllabification", "etymology", "synonyms", "forms",
     "confusableWords", "root", "relatedWords", "word", "details",
     "similarWords", "not a word", "null"}

Name(chars) ==
    IF \E sym \in Symbols : Spell(sym) = chars
    THEN CHOOSE sym \in Symbols : Spell(sym) = chars
    ELSE IF chars = <<>> THEN ""
    ELSE IF Len(chars) = 1 THEN chars[1]
    ELSE ToString(chars)

Node(kind, val) == [kind |-> kind, val |-> val]
Undefined == Node("undefined", <<>>)

ParseFail(why, at) == [ok |-> FALSE, node |-> Undefined, next |-> at, why |-> why]
Parsed(kind, val, next) ==
    [ok |-> TRUE, node |-> Node(kind, val), next |-> next, why |-> "none"]

TokAt(toks, i) == IF i <= Len(toks) THEN toks[i] ELSE <<"eof">>

RECURSIVE ParseValue(_, _)
RECURSIVE ParseElements(_, _)
RECURSIVE ParseMembers(_, _, _)

ParseValue(toks, i) ==
    LET tok == TokAt(toks, i)
    IN  CASE tok[1] = "str" -> Parsed("str", Tail(tok), i + 1)
          [] tok = <<"null">> -> Parsed("null", <<>>, i + 1)
          [] tok = <<"[">> ->
                IF TokAt(toks, i + 1) = <<"]">> THEN Parsed("arr", <<>>, i + 2)
                ELSE ParseElements(toks, i + 1)
          [] tok = <<"{">> ->
                IF TokAt(toks, i + 1) = <<"}">> THEN Parsed("obj", <<>>, i + 2)
                ELSE ParseMembers(toks, i + 1, "propOrBrace")
          [] tok = <<"eof">> -> ParseFail("eos", i)
          [] OTHER -> ParseFail("token", i)

ParseElements(toks, i) ==
    LET first == ParseValue(toks, i)
    IN  IF ~first.ok THEN first
        ELSE IF TokAt(toks, first.next) = <<",">>
             THEN LET rest == ParseElements(toks, first.next + 1)
                  IN  IF ~rest.ok THEN rest
                      ELSE Parsed("arr", <<first.node>> \o rest.node.val, rest.next)
        ELSE IF TokAt(toks, first.next) = <<"]">>
             THEN Parsed("arr", <<first.node>>, first.next + 1)
        ELSE ParseFail("commaOrBrack", first.next)

\* `missing`: what to report when no property name stands at i, "dquote"
\* after a comma.  The colon missed after the first property name and after
\* a later one are two places of the parser.
ParseMembers(toks, i, missing) ==
    LET key == TokAt(toks, i)
        name == Name(SpellAll(Tail(key)))
        colon == IF missing = "dquote" THEN "nextColon" ELSE "colon"
    IN  IF key[1] # "str" THEN ParseFail(missing, i)
        ELSE IF TokAt(toks, i + 1) # <<":">> THEN ParseFail(colon, i + 1)
        ELSE LET v == ParseValue(toks, i + 2)
             IN  IF ~v.ok THEN v
                 ELSE IF TokAt(toks, v.next) = <<",">>
                      THEN LET rest == ParseMembers(toks, v.next + 1, "dquote")
                           IN  IF ~rest.ok THEN rest
                               ELSE Parsed("obj", rest.node.val @@ (name :> v.node),
                                           rest.next)
                 ELSE IF TokAt(toks, v.next) = <<"}">>
                      THEN Parsed("obj", name :> v.node, v.next + 1)
                 ELSE ParseFail("commaOrBrace", v.next)

JsonParse(text) ==
    LET r == ParseValue(text, 1)
    IN  IF r.ok /\ r.next # Len(text) + 1 THEN ParseFail("after", r.next) ELSE r

(***************************************************************************)
(* What JavaScript does with a parsed value: the value itself as the       *)
(* program holds it (Plain), a property read (Get; reading a property of   *)
(* null throws, which the callers test with node.kind), and its truth      *)
(* value in a condition (Truthy).                                          *)
(***************************************************************************)
RECURSIVE Plain(_)
Plain(node) ==
    CASE node.kind = "arr" -> [i \in 1..Len(node.val) |-> Plain(node.val[i])]
      [] node.kind = "obj" -> [k \in DOMAIN node.val |-> Plain(node.val[k])]
      [] OTHER -> node.val

Get(node, k) ==
    IF node.kind = "obj" /\ k \in DOMAIN node.val THEN node.val[k] ELSE Undefined

Truthy(node) ==
    CASE node.kind = "str" -> node.val # <<>>
      [] node.kind \in {"arr", "obj"} -> TRUE
      [] OTHER -> FALSE

(***************************************************************************)
(* fetchWordDetails (src/unnamed/part_000).  A reply of the remote model   *)
(* is a text, or the call rejects (with an Error, or with something else). *)
(* The result is the WordDetails returned, or the Error thrown.            *)
(***************************************************************************)
TextReply(text) == [kind |-> "text", text |-> text, message |-> <<>>]
RejectError(message) == [kind |-> "rejectError", text |-> <<>>, message |-> message]
RejectOther == [kind |-> "rejectOther", text |-> <<>>, message |-> <<>>]

IncompleteMessage == <<"Received incomplete data from the API.">>

\* The message of the SyntaxError of JSON.parse, as V8 words it: what was
\* expected and the position of the character the parser stopped at, or
\* the unexpected character with the source around it.  The
\* text is the tokens written without white space, as JSON.stringify
\* writes them.
Chars(tok) ==
    IF tok[1] = "str" THEN <<"\"">> \o SpellAll(Tail(tok)) \o <<"\"">>
    ELSE Spell(tok[1])

RECURSIVE Source(_)
Source(text) ==
    IF text = <<>> THEN <<>> ELSE Chars(Head(text)) \o Source(Tail(text))

Digit(d) == <<"0", "1", "2", "3", "4", "5", "6", "7", "8", "9">>[d + 1]

RECURSIVE Digits(_)
Digits(n) ==
    IF n < 10 THEN <<Digit(n)>> ELSE Digits(n \div 10) \o <<Digit(n % 10)>>

MaxContextCharacters == 10

Expected(why) ==
    CASE why = "propOrBrace" -> "Expected property name or '}' in JSON"
      [] why = "dquote" -> "Expected double-quoted property name in JSON"
      [] why \in {"colon", "nextColon"} -> "Expected ':' after property name in JSON"
      [] why = "commaOrBrace" -> "Expected ',' or '}' after property value in JSON"
      [] why = "commaOrBrack" -> "Expected ',' or ']' after array element in JSON"
      [] why = "after" -> "Unexpected non-whitespace character after JSON"

UnexpectedToken(source, pos) ==
    LET length == Len(source)
        open == <<"Unexpected token '", source[pos + 1], "', ">>
        close == <<" is not valid JSON">>
        Quoted(from, to) == <<"\"">> \o SubSeq(source, from + 1, to) \o <<"\"">>
    IN  IF length < 2 * MaxContextCharacters + 1
        THEN open \o Quoted(0, length) \o close
        ELSE IF pos < MaxContextCharacters
        THEN open \o Quoted(0, pos + MaxContextCharacters) \o <<"...">> \o close
        ELSE IF pos < length - MaxContextCharacters
        THEN open \o <<"...">>
                \o Quoted(pos - MaxContextCharacters, pos + MaxContextCharacters)
                \o <<"...">> \o close
        ELSE open \o <<"...">> \o Quoted(pos - MaxContextCharacters, length) \o close

\* The wording is the engine's.  Four generations of V8 are modelled:
\* "V8 8" (Node 10 to 14) and "V8 10" (Node 16 and 18) name the token they
\* did not expect; "V8 11" (Node 20) says what it expected, except for the
\* colon after a property name that is not the first, where it names the
\* token; "V8 12" (Node 22, Chrome) says what it expected everywhere and
\* adds the line and the column.
Engines == {"V8 8", "V8 10", "V8 11", "V8 12"}

NamesToken(v8) == v8 \in {"V8 8", "V8 10"}

LegacyMessage(tok, source, pos) ==
    IF tok[1] = "str"
    THEN <<"Unexpected string in JSON at position ">> \o Digits(pos)
    ELSE <<"Unexpected token ", source[pos + 1], " in JSON at position ">>
            \o Digits(pos)

SyntaxErrorMessage(text, v8) ==
    LET failed == JsonParse(text)
        pos == Len(Source(SubSeq(text, 1, failed.next - 1)))
        where == <<" at position ">> \o Digits(pos)
        lineColumn == <<" (line 1 column ">> \o Digits(pos + 1) \o <<")">>
        atEnd == failed.next > Len(text)
    IN  IF failed.why = "eos" \/ (NamesToken(v8) /\ atEnd)
        THEN <<"Unexpected end of JSON input">>
        ELSE IF NamesToken(v8)
        THEN LegacyMessage(text[failed.next], Source(text), pos)
        ELSE IF failed.why = "token" THEN UnexpectedToken(Source(text), pos)
        ELSE IF v8 = "V8 11" /\ failed.why = "nextColon"
        THEN IF atEnd THEN <<"Unexpected end of JSON input">>
             ELSE IF text[failed.next][1] = "str"
             THEN <<"Unexpected string in JSON">> \o where
             ELSE UnexpectedToken(Source(text), pos)
        ELSE IF v8 = "V8 11" THEN <<Expected(failed.why)>> \o where
        ELSE <<Expected(failed.why)>> \o where \o lineColumn

\* the message of the TypeError of data.error when data is null
TypeErrorMessage(v8) ==
    IF v8 = "V8 8" THEN <<"Cannot read property 'error' of null">>
    ELSE <<"Cannot read properties of null (reading 'error')">>
FailedMessage_NoDetail(word, inner) ==
    <<"Failed to fetch details for \"">> \o word \o <<"\".">>

FailedMessage(word, inner) ==
    <<"Failed to fetch details for \"">> \o word \o <<"\": ">> \o inner
UnknownFetchMessage(word) ==
    <<"An unknown error occurred while fetching details for \"">> \o word \o <<"\".">>

\* String(v), the message of new Error(v): an array gives its elements
\* joined by commas, null and undefined among them as the empty text
RECURSIVE ToText(_)
RECURSIVE JoinTexts(_)
ToText(node) ==
    CASE node.kind = "str" -> node.val
      [] node.kind = "arr" -> JoinTexts(node.val)
      [] node.kind = "obj" -> <<"[object Object]">>
      [] OTHER -> <<node.kind>>

JoinTexts(nodes) ==
    LET ElementText(n) ==
            IF n.kind \in {"null", "undefined"} THEN <<>> ELSE ToText(n)
    IN  IF nodes = <<>> THEN <<>>
        ELSE IF Len(nodes) = 1 THEN ElementText(nodes[1])
        ELSE ElementText(nodes[1]) \o <<",">> \o JoinTexts(Tail(nodes))

Returned(details) == [ok |-> TRUE, details |-> details, isError |-> FALSE, message |-> <<>>]
Thrown(message) == [ok |-> FALSE, details |-> <<>>, isError |-> TRUE, message |-> message]

RequiredFields_NoForms == {"syllabification", "etymology", "synonyms"}

\* the fields line 132 tests
RequiredFields == {"syllabification", "etymology", "synonyms", "forms"}

fetchWordDetails(word, reply, v8) ==
    IF reply.kind = "rejectOther" THEN Thrown(UnknownFetchMessage(word))
    ELSE IF reply.kind = "rejectError" THEN Thrown(FailedMessage(word, reply.message))
    ELSE LET parsed == JsonParse(reply.text)
             data == parsed.node
         IN  IF ~parsed.ok
                THEN Thrown(FailedMessage(word, SyntaxErrorMessage(reply.text, v8)))
             ELSE IF data.kind = "null" THEN Thrown(FailedMessage(word, TypeErrorMessage(v8)))
             ELSE IF Truthy(Get(data, "error"))
                  THEN Thrown(FailedMessage(word, ToText(Get(data, "error"))))
             ELSE IF \E k \in RequiredFields : ~Truthy(Get(data, k))
                  THEN Thrown(FailedMessage(word, IncompleteMessage))
             ELSE Returned(Plain(data))

(***************************************************************************)
(* The remote model: the replies it may give to the prompt for a word.     *)
(* A well-formed reply describes the word asked for (its syllabification   *)
(* and root are that word); its forms are links that can be double-clicked.*)
(***************************************************************************)
NotAWord == <<"not a word">>
LinkForms == << [word |-> <<" ">>], [word |-> <<"B", " ">>] >>
RelatedWords == << [word |-> <<"B", " ">>] >>
ConfusableWords == << [word |-> <<" ">>] >>

EtymologyOf(w) == [root |-> w, relatedWords |-> RelatedWords]

DetailsOf(w, forms) ==
    [syllabification |-> w, etymology |-> EtymologyOf(w),
     synonyms |-> <<>>, forms |-> forms, confusableWords |-> ConfusableWords]

Without(d, k) == [f \in DOMAIN d \ {k} |-> d[f]]

CompleteReply(w) == TextReply(StringifyDetails(DetailsOf(w, LinkForms)))
MissingReply(w, k) == TextReply(StringifyDetails(Without(DetailsOf(w, LinkForms), k)))
ErrorReply(m) == TextReply(StringifyObject(<< Member("error", StringifyString(m)) >>))

\* the fields of the response schema that the model keeps
SchemaFields == {"syllabification", "etymology", "synonyms", "forms"}

Replies(w) ==
    {CompleteReply(w), ErrorReply(NotAWord)}
        \cup {MissingReply(w, k) : k \in SchemaFields}

\* Every shape of reply: each field absent, present and empty, or present
\* and filled; a text cut short; the text null; a call that rejects.
Opt(values) == {Null} \cup {Some(v) : v \in values}
Field(k, opt) == IF opt = Null THEN <<>> ELSE k :> opt[1]

ReplyObjects(w) ==
    {Field("error", e) @@ Field("syllabification", s) @@ Field("etymology", t)
        @@ Field("synonyms", y) @@ Field("forms", f) :
        e \in Opt({<<>>, NotAWord}), s \in Opt({<<>>, w}),
        t \in Opt({EtymologyOf(w)}), y \in Opt({<<>>}),
        f \in Opt({<<>>, LinkForms})}

ObjectReply(d) == TextReply(StringifyDetails(d))
TruncatedReply(w) ==
    LET text == CompleteReply(w).text
    IN  TextReply(SubSeq(text, 1, Len(text) - 1))
NullReply == TextReply(<< <<"null">> >>)
NetworkDown == <<"fetch failed">>

ValidatorReplies(w) ==
    {ObjectReply(d) : d \in ReplyObjects(w)}
        \cup {TruncatedReply(w), NullReply, RejectError(NetworkDown), RejectOther}

(***************************************************************************)
(* State of the App component (src/App.tsx 56-64), of the browser          *)
(* (localStorage under LOCAL_STORAGE_KEY, the fetches in flight) and of    *)
(* React (pc: which effects and renders of the startup are still due;      *)
(* pending: the setSavedWords of the load effect, not yet rendered;         *)
(* engine: the JavaScript engine the page runs on, Null until the first    *)
(* message in the engine's words is formed, the same engine from then on). *)
(* lastOp and beforeRestart record the history: the last handler run, and  *)
(* the collection that the session before a restart left behind.           *)
(***************************************************************************)
VARIABLES wordToSearch, currentWord, wordDetails, similarWords, newSimilarWord,
          isLoading, error, savedWords, isSidebarOpen,
          storage, inflight, pc, pending, engine, lastOp, beforeRestart

uiVars == <<wordToSearch, currentWord, wordDetails, similarWords, newSimilarWord,
            isLoading, error, savedWords, isSidebarOpen>>
searchVars == <<currentWord, wordDetails, similarWords, isLoading, error>>
vars == <<wordToSearch, currentWord, wordDetails, similarWords, newSimilarWord,
          isLoading, error, savedWords, isSidebarOpen,
          storage, inflight, pc, pending, engine, lastOp, beforeRestart>>

Op(op, arg, ok) == [op |-> op, arg |-> arg, ok |-> ok]

\* the words a search can be made for: from the search box, from a link
Words ==
    {ToLowerCase(Trim(s)) :
        s \in Inputs \cup {LinkForms[i].word : i \in 1..Len(LinkForms)}} \ {<<>>}

\* what localStorage may hold when the application is first opened
CorruptText == << <<"[">>, <<"{">> >>
InitialStorage == {Null, Some(CorruptText), Some(JsonStringify(<<>>))}

Init ==
    /\ wordToSearch = <<>>
    /\ currentWord = Null
    /\ wordDetails = Null
    /\ similarWords = <<>>
    /\ newSimilarWord = <<>>
    /\ isLoading = FALSE
    /\ error = Null
    /\ savedWords = <<>>
    /\ isSidebarOpen = FALSE
    /\ storage \in InitialStorage
    /\ inflight = EmptyBag
    /\ pc = "mount"
    /\ pending = Null
    /\ engine = Null
    /\ lastOp = Op("init", <<>>, TRUE)
    /\ beforeRestart = Null

(***************************************************************************)
(* The two effects.                                                        *)
(***************************************************************************)
Reverse(seq) == [i \in 1..Len(seq) |-> seq[Len(seq) + 1 - i]]

LoadEffect_Reversed(saved) ==
    IF saved # Null /\ saved[1] # <<>>
    THEN LET parsed == JsonParse(saved[1])
         IN  IF parsed.ok THEN Some(Reverse(Plain(parsed.node))) ELSE Null
    ELSE Null

LoadEffect_DropsLast(saved) ==
    IF saved # Null /\ saved[1] # <<>>
    THEN LET parsed == JsonParse(saved[1])
             coll == Plain(parsed.node)
         IN  IF parsed.ok THEN Some(SubSeq(coll, 1, Len(coll) - 1)) ELSE Null
    ELSE Null

\* useEffect(load): the collection to hand to setSavedWords, or Null
LoadEffect(saved) ==
    IF saved # Null /\ saved[1] # <<>>
    THEN LET parsed == JsonParse(saved[1])
         IN  IF parsed.ok THEN Some(Plain(parsed.node)) ELSE Null
    ELSE Null

SaveEffect_SkipEmpty(coll) ==
    IF coll = <<>> THEN storage ELSE Some(JsonStringify(coll))

\* useEffect(save): the text that setItem stores.  The storage is taken to
\* accept the write; the catch of a failed write only logs.
SaveEffect(coll) == Some(JsonStringify(coll))

\* first render committed: both effects run, the save effect with the
\* savedWords of that render, the empty list
MountEffects ==
    /\ pc = "mount"
    /\ pending' = LoadEffect(storage)
    /\ storage' = SaveEffect(savedWords)
    /\ pc' = IF pending' # Null THEN "loaded" ELSE "ready"
    /\ lastOp' = Op("mount", <<>>, TRUE)
    /\ UNCHANGED <<uiVars, inflight, engine, beforeRestart>>

\* the render that setSavedWords asked for is committed; its save effect is
\* passive and runs in a later task
RenderLoaded ==
    /\ pc = "loaded"
    /\ savedWords' = pending[1]
    /\ pending' = Null
    /\ pc' = "rendered"
    /\ lastOp' = Op("render", <<>>, TRUE)
    /\ UNCHANGED <<wordToSearch, newSimilarWord, isSidebarOpen, searchVars,
                   storage, inflight, engine, beforeRestart>>

\* the save effect of that render.  React runs the passive effects that
\* are due before it handles an event, so no handler runs ahead of it.
SaveLoaded ==
    /\ pc = "rendered"
    /\ storage' = SaveEffect(savedWords)
    /\ pc' = "ready"
    /\ lastOp' = Op("loaded", <<>>, TRUE)
    /\ UNCHANGED <<uiVars, inflight, pending, engine, beforeRestart>>

(***************************************************************************)
(* The handlers.  A handler runs when its control is on the page: the      *)
(* search box and button are disabled while isLoading (190, 194), the four *)
(* panels show their content when wordDetails is set and isLoading is not  *)
(* (224, 280, 316, 338), the entries of the sidebar can be clicked when it *)
(* is open.  The conditions a handler tests itself are part of the handler *)
(* and are modelled there, also where the control repeats them (the search *)
(* button disabled on a blank box, the bookmark disabled on a saved word). *)
(***************************************************************************)
Ready == pc = "ready"
Acted(op, arg, ok) ==
    lastOp' = Op(op, arg, ok) /\ beforeRestart' = Null /\ engine' = engine
PanelsShown == ~isLoading /\ wordDetails # Null

\* onChange of the search box
setWordToSearch(text) ==
    /\ Ready /\ ~isLoading
    /\ text # wordToSearch
    /\ wordToSearch' = text
    /\ Acted("other", <<>>, TRUE)
    /\ UNCHANGED <<searchVars, newSimilarWord, savedWords, isSidebarOpen,
                   storage, inflight, pc, pending>>

\* executeSearch up to the await: the guard, the resets, the request
executeSearch(wordToQuery) ==
    IF Trim(wordToQuery) = <<>>
    THEN UNCHANGED <<searchVars, inflight>>
    ELSE LET lowercasedWord == ToLowerCase(Trim(wordToQuery))
         IN  /\ BagCardinality(inflight) < MaxInflight
             /\ isLoading' = TRUE
             /\ error' = Null
             /\ wordDetails' = Null
             /\ currentWord' = Some(lowercasedWord)
             /\ similarWords' = <<>>
             /\ inflight' = inflight (+) SetToBag({lowercasedWord})

\* the replies the model may give to the request for each word
Replied == [w \in Words |-> Replies(w)]

\* fetchWordDetails(w, r) for the requests and the replies of the model,
\* on each engine
Fetched ==
    [v8 \in Engines |->
        [w \in Words |->
            [r \in Replies(w) \cup ValidatorReplies(w) |->
                fetchWordDetails(w, r, v8)]]]

\* the replies whose text JSON.parse rejects, or gives null for: their
\* error is a SyntaxError or a TypeError in the words of the engine
Malformed ==
    [w \in Words |->
        {r \in Replies(w) \cup ValidatorReplies(w) :
            /\ r.kind = "text"
            /\ ~JsonParse(r.text).ok \/ JsonParse(r.text).node.kind = "null"}]

\* the engines a fetch can settle on: the engine of the page once it is
\* known; any one engine for a reply that no engine words
EnginesFor(word, reply) ==
    IF reply \notin Malformed[word] THEN {"V8 12"}
    ELSE IF engine = Null THEN Engines
    ELSE {engine[1]}

Worded(word, reply, v8) ==
    /\ beforeRestart' = Null
    /\ engine' = IF reply \in Malformed[word] THEN Some(v8) ELSE engine

executeSearchSettle_IgnoreStale(word, reply) ==
    \E v8 \in EnginesFor(word, reply) :
    LET result == Fetched[v8][word][reply]
        stale == currentWord # Some(word)
    IN  /\ Ready
        /\ BagIn(word, inflight)
        /\ inflight' = inflight (-) SetToBag({word})
        /\ IF stale THEN UNCHANGED <<error, currentWord, wordDetails, isLoading>>
           ELSE /\ isLoading' = FALSE
                /\ IF result.ok
                   THEN /\ wordDetails' = Some(result.details)
                        /\ UNCHANGED <<error, currentWord>>
                   ELSE /\ error' = Some(result.message)
                        /\ currentWord' = Null
                        /\ UNCHANGED wordDetails
        /\ lastOp' = Op("settle", word, result.ok)
        /\ Worded(word, reply, v8)
        /\ UNCHANGED <<wordToSearch, similarWords, newSimilarWord, savedWords,
                       isSidebarOpen, storage, pc, pending>>

\* a variant without the finally block: a failed fetch leaves isLoading set
executeSearchSettle_NoFinally(word, reply) ==
    \E v8 \in EnginesFor(word, reply) :
    LET result == Fetched[v8][word][reply]
    IN  /\ Ready
        /\ BagIn(word, inflight)
        /\ inflight' = inflight (-) SetToBag({word})
        /\ IF result.ok
           THEN /\ wordDetails' = Some(result.details)
                /\ isLoading' = FALSE
                /\ UNCHANGED <<error, currentWord>>
           ELSE /\ error' = Some(result.message)
                /\ currentWord' = Null
                /\ UNCHANGED <<wordDetails, isLoading>>
        /\ lastOp' = Op("settle", word, result.ok)
        /\ Worded(word, reply, v8)
        /\ UNCHANGED <<wordToSearch, similarWords, newSimilarWord, savedWords,
                       isSidebarOpen, storage, pc, pending>>

\* executeSearch from the await on, when the fetch for `word` settles
executeSearchSettle(word, reply) ==
    \E v8 \in EnginesFor(word, reply) :
    LET result == Fetched[v8][word][reply]
    IN  /\ Ready
        /\ BagIn(word, inflight)
        /\ inflight' = inflight (-) SetToBag({word})
        /\ IF result.ok
           THEN /\ wordDetails' = Some(result.details)
                /\ UNCHANGED <<error, currentWord>>
           ELSE /\ error' = Some(IF result.isError THEN result.message
                                 ELSE <<"An unknown error occurred.">>)
                /\ currentWord' = Null
                /\ UNCHANGED wordDetails
        /\ isLoading' = FALSE
        /\ lastOp' = Op("settle", word, result.ok)
        /\ Worded(word, reply, v8)
        /\ UNCHANGED <<wordToSearch, similarWords, newSimilarWord, savedWords,
                       isSidebarOpen, storage, pc, pending>>

\* disabled={isLoading || !wordToSearch.trim()} of the search button
searchDisabled == isLoading \/ Trim(wordToSearch) = <<>>

handleFormSubmit ==
    /\ Ready /\ ~isLoading
    /\ executeSearch(wordToSearch)
    /\ Acted("submit", <<>>, TRUE)
    /\ UNCHANGED <<wordToSearch, newSimilarWord, savedWords, isSidebarOpen,
                   storage, pc, pending>>

\* the words of the panels that carry onDoubleClick
RECURSIVE WordsOf(_)
WordsOf(items) ==
    IF items = <<>> THEN {} ELSE {Head(items).word} \cup WordsOf(Tail(items))

WordsIn(details, k) == IF k \in DOMAIN details THEN WordsOf(details[k]) ELSE {}

Range(seq) == {seq[i] : i \in 1..Len(seq)}

\* forms (263), etymology.relatedWords (301), synonyms (321),
\* confusableWords (358), the user's similar words (373)
Clickable ==
    IF PanelsShown
    THEN WordsIn(wordDetails[1], "forms")
            \cup WordsIn(wordDetails[1].etymology, "relatedWords")
            \cup WordsIn(wordDetails[1], "synonyms")
            \cup WordsIn(wordDetails[1], "confusableWords")
            \cup Range(similarWords)
    ELSE {}

handleDoubleClickWord(word) ==
    /\ Ready
    /\ word \in Clickable
    /\ wordToSearch' = word
    /\ executeSearch(word)
    /\ Acted("doubleClick", <<>>, TRUE)
    /\ UNCHANGED <<newSimilarWord, savedWords, isSidebarOpen,
                   storage, pc, pending>>

\* onChange of the "Add your own..." box
setNewSimilarWord(text) ==
    /\ Ready /\ PanelsShown
    /\ text # newSimilarWord
    /\ newSimilarWord' = text
    /\ Acted("other", <<>>, TRUE)
    /\ UNCHANGED <<wordToSearch, searchVars, savedWords, isSidebarOpen,
                   storage, inflight, pc, pending>>

\* a variant that writes the working list through to the saved entry
handleAddSimilarWord_UpdatesSaved ==
    /\ Ready /\ PanelsShown
    /\ IF Trim(newSimilarWord) # <<>> /\ ~Includes(similarWords, Trim(newSimilarWord))
       THEN /\ similarWords' = Append(similarWords, Trim(newSimilarWord))
            /\ newSimilarWord' = <<>>
       ELSE UNCHANGED <<similarWords, newSimilarWord>>
    /\ savedWords' = [i \in 1..Len(savedWords) |->
                         IF currentWord = Some(savedWords[i].word)
                         THEN [savedWords[i] EXCEPT !.similarWords = similarWords']
                         ELSE savedWords[i]]
    /\ storage' = Some(JsonStringify(savedWords'))
    /\ Acted("other", <<>>, TRUE)
    /\ UNCHANGED <<wordToSearch, currentWord, wordDetails, isLoading, error,
                   isSidebarOpen, inflight, pc, pending>>

handleAddSimilarWord ==
    /\ Ready /\ PanelsShown
    /\ IF Trim(newSimilarWord) # <<>> /\ ~Includes(similarWords, Trim(newSimilarWord))
       THEN /\ similarWords' = Append(similarWords, Trim(newSimilarWord))
            /\ newSimilarWord' = <<>>
       ELSE UNCHANGED <<similarWords, newSimilarWord>>
    /\ Acted("other", <<>>, TRUE)
    /\ UNCHANGED <<wordToSearch, currentWord, wordDetails, isLoading, error,
                   savedWords, isSidebarOpen, storage, inflight, pc, pending>>

isSaved_BySearchBox(word) ==
    \E i \in 1..Len(savedWords) : savedWords[i].word = wordToSearch

\* savedWords.some(sw => sw.word === word)
isSaved(word) == \E i \in 1..Len(savedWords) : savedWords[i].word = word

\* a variant that keeps the right entries and turns their order round
filterOut_Reversed(prev, wordToDelete) ==
    Reverse(SelectSeq(prev, LAMBDA sw : sw.word # wordToDelete))

\* prev.filter(sw => sw.word !== wordToDelete)
filterOut(prev, wordToDelete) == SelectSeq(prev, LAMBDA sw : sw.word # wordToDelete)

handleSaveWord ==
    /\ Ready /\ PanelsShown
    /\ IF currentWord # Null /\ currentWord[1] # <<>> /\ wordDetails # Null
          /\ ~isSaved(currentWord[1])
       THEN LET newSavedWord == [word |-> currentWord[1],
                                 details |-> wordDetails[1],
                                 similarWords |-> similarWords]
            IN  /\ Len(savedWords) < MaxSaved
                /\ savedWords' = <<newSavedWord>> \o savedWords
                /\ storage' = SaveEffect(savedWords')
       ELSE UNCHANGED <<savedWords, storage>>
    /\ Acted("save", <<>>, savedWords' # savedWords)
    /\ UNCHANGED <<wordToSearch, searchVars, newSimilarWord, isSidebarOpen,
                   inflight, pc, pending>>

setIsSidebarOpen(open) ==
    /\ Ready
    /\ open # isSidebarOpen
    /\ isSidebarOpen' = open
    /\ Acted("other", <<>>, TRUE)
    /\ UNCHANGED <<wordToSearch, searchVars, newSimilarWord, savedWords,
                   storage, inflight, pc, pending>>

handleSelectSavedWord_KeepsSimilar(savedWord) ==
    /\ Ready /\ isSidebarOpen
    /\ currentWord' = Some(savedWord.word)
    /\ wordDetails' = Some(savedWord.details)
    /\ wordToSearch' = savedWord.word
    /\ isSidebarOpen' = FALSE
    /\ error' = Null
    /\ isLoading' = FALSE
    /\ Acted("select", <<>>, TRUE)
    /\ UNCHANGED <<similarWords, newSimilarWord, savedWords, storage, inflight,
                   pc, pending>>

handleSelectSavedWord(savedWord) ==
    /\ Ready /\ isSidebarOpen
    /\ currentWord' = Some(savedWord.word)
    /\ wordDetails' = Some(savedWord.details)
    /\ similarWords' = savedWord.similarWords
    /\ wordToSearch' = savedWord.word
    /\ isSidebarOpen' = FALSE
    /\ error' = Null
    /\ isLoading' = FALSE
    /\ Acted("select", <<>>, TRUE)
    /\ UNCHANGED <<newSimilarWord, savedWords, storage, inflight, pc, pending>>

\* filter builds a new array each time, so the save effect runs after it
handleDeleteWord(wordToDelete) ==
    /\ Ready /\ isSidebarOpen
    /\ savedWords' = filterOut(savedWords, wordToDelete)
    /\ storage' = SaveEffect(savedWords')
    /\ Acted("delete", wordToDelete, savedWords' # savedWords)
    /\ UNCHANGED <<wordToSearch, searchVars, newSimilarWord, isSidebarOpen,
                   inflight, pc, pending>>

\* the page is closed or reloaded and opened again: the component state and
\* the fetches are gone, localStorage stays
Restart ==
    /\ wordToSearch' = <<>>
    /\ currentWord' = Null
    /\ wordDetails' = Null
    /\ similarWords' = <<>>
    /\ newSimilarWord' = <<>>
    /\ isLoading' = FALSE
    /\ error' = Null
    /\ savedWords' = <<>>
    /\ isSidebarOpen' = FALSE
    /\ inflight' = EmptyBag
    /\ pc' = "mount"
    /\ pending' = Null
    /\ lastOp' = Op("restart", <<>>, TRUE)
    /\ beforeRestart' = IF Ready THEN Some(savedWords) ELSE Null
    /\ UNCHANGED <<storage, engine>>

Next ==
    \/ MountEffects
    \/ RenderLoaded
    \/ SaveLoaded
    \/ \E text \in Inputs : setWordToSearch(text)
    \/ handleFormSubmit
    \/ \E word \in Clickable : handleDoubleClickWord(word)
    \/ \E word \in DOMAIN inflight : \E reply \in Replied[word] :
          executeSearchSettle(word, reply)
    \/ \E text \in SimilarInputs : setNewSimilarWord(text)
    \/ handleAddSimilarWord
    \/ handleSaveWord
    \/ \E open \in BOOLEAN : setIsSidebarOpen(open)
    \/ \E i \in 1..Len(savedWords) : handleSelectSavedWord(savedWords[i])
    \/ \E word \in Words : handleDeleteWord(word)
    \/ Restart

Spec == Init /\ [][Next]_vars

\* every remote call comes to an end: the promise of a pending fetch
\* resolves or rejects, and the continuation of executeSearch then runs
LiveSpec ==
    /\ Spec
    /\ \A w \in Words : WF_vars(\E reply \in Replied[w] : executeSearchSettle(w, reply))

(***************************************************************************)
(* The search path alone, against every shape of reply: the application    *)
(* has started with nothing stored, the user types, submits, adds similar  *)
(* words and double-clicks, and each fetch settles with any reply of       *)
(* ValidatorReplies.                                                       *)
(***************************************************************************)
InitFetch ==
    /\ wordToSearch = <<>>
    /\ currentWord = Null
    /\ wordDetails = Null
    /\ similarWords = <<>>
    /\ newSimilarWord = <<>>
    /\ isLoading = FALSE
    /\ error = Null
    /\ savedWords = <<>>
    /\ isSidebarOpen = FALSE
    /\ storage = SaveEffect(<<>>)
    /\ inflight = EmptyBag
    /\ pc = "ready"
    /\ pending = Null
    /\ engine = Null
    /\ lastOp = Op("mount", <<>>, TRUE)
    /\ beforeRestart = Null

NextFetch ==
    \/ \E text \in Inputs : setWordToSearch(text)
    \/ handleFormSubmit
    \/ \E word \in Clickable : handleDoubleClickWord(word)
    \/ \E word \in DOMAIN inflight : \E reply \in ValidatorReplies(word) :
          executeSearchSettle(word, reply)
    \/ \E text \in SimilarInputs : setNewSimilarWord(text)
    \/ handleAddSimilarWord

SpecFetch == InitFetch /\ [][NextFetch]_vars

(***************************************************************************)
(* The saved collection alone: the application is opened on a collection   *)
(* of three entries that earlier sessions stored.  The user opens the      *)
(* sidebar, selects, deletes and saves entries, and reloads the page.      *)
(***************************************************************************)
StoredWords == << <<"c">>, <<"a">>, <<"b">> >>

StoredEntry(w) ==
    [word |-> w, details |-> DetailsOf(w, LinkForms), similarWords |-> <<>>]

StoredCollection == [i \in 1..Len(StoredWords) |-> StoredEntry(StoredWords[i])]

InitSaved ==
    /\ wordToSearch = <<>>
    /\ currentWord = Null
    /\ wordDetails = Null
    /\ similarWords = <<>>
    /\ newSimilarWord = <<>>
    /\ isLoading = FALSE
    /\ error = Null
    /\ savedWords = <<>>
    /\ isSidebarOpen = FALSE
    /\ storage = SaveEffect(StoredCollection)
    /\ inflight = EmptyBag
    /\ pc = "mount"
    /\ pending = Null
    /\ engine = Null
    /\ lastOp = Op("init", <<>>, TRUE)
    /\ beforeRestart = Null

NextSaved ==
    \/ MountEffects
    \/ RenderLoaded
    \/ SaveLoaded
    \/ handleSaveWord
    \/ \E open \in BOOLEAN : setIsSidebarOpen(open)
    \/ \E i \in 1..Len(savedWords) : handleSelectSavedWord(savedWords[i])
    \/ \E word \in Range(StoredWords) : handleDeleteWord(word)
    \/ Restart

SpecSaved == InitSaved /\ [][NextSaved]_vars

(***************************************************************************)
(* Properties.                                                             *)
(***************************************************************************)
Settled(ok) == lastOp.op = "settle" /\ lastOp.ok = ok

\* C1: when executeSearch(W) completes with a successful fetch, currentWord
\* is W trimmed and lower-cased (the word of the request), wordDetails is
\* the response fetched for that word and similarWords is empty.
C1_SuccessfulSearchShowsItsWord ==
    Settled(TRUE) =>
        /\ currentWord = Some(lastOp.arg)
        /\ wordDetails = Some(Fetched["V8 12"][lastOp.arg][CompleteReply(lastOp.arg)].details)
        /\ similarWords = <<>>

\* C2: a search for a blank word, from the form or from a double click,
\* starts no fetch and changes no state variable.
C2_BlankSearchChangesNothing ==
    [][(lastOp'.op \in {"submit", "doubleClick"} /\ Trim(wordToSearch') = <<>>)
          => UNCHANGED <<wordToSearch, currentWord, wordDetails, similarWords,
                         isLoading, error, savedWords, inflight>>]_vars

\* C3: no two entries of savedWords have the same word, and handleSaveWord
\* on a word that is already saved changes nothing.
UniqueByWord(coll) ==
    \A i, j \in 1..Len(coll) : coll[i].word = coll[j].word => i = j

C3_SavedWordsUnique ==
    /\ [](UniqueByWord(savedWords))
    /\ [][(lastOp'.op = "save" /\ currentWord # Null
              /\ \E i \in 1..Len(savedWords) : savedWords[i].word = currentWord[1])
            => savedWords' = savedWords /\ storage' = storage]_vars

C3_Witness ==
    /\ lastOp = Op("save", <<>>, FALSE)
    /\ currentWord # Null
    /\ Len(savedWords) = 2
    /\ \E i \in 1..Len(savedWords) : savedWords[i].word = currentWord[1]

\* C4: handleDeleteWord(W) removes exactly the entry whose word is W, keeps
\* every other entry as it was and in the same order, and changes nothing
\* when W is not saved.  Checked on collections of up to three entries
\* (SpecSaved), where two entries stay behind and their order shows.
Positions(coll, word) == {i \in 1..Len(coll) : coll[i].word = word}

C4_DeleteRemovesExactlyThatEntry ==
    [][lastOp'.op = "delete" =>
          LET at == Positions(savedWords, lastOp'.arg)
          IN  IF at = {} THEN savedWords' = savedWords
              ELSE \E i \in at :
                      /\ at = {i}
                      /\ savedWords' = SubSeq(savedWords, 1, i - 1)
                                         \o SubSeq(savedWords, i + 1, Len(savedWords))]_vars

C4_Witness ==
    /\ lastOp.op = "delete" /\ lastOp.ok
    /\ Len(savedWords) = 2
    /\ savedWords[1].word # savedWords[2].word
    /\ \A i \in 1..Len(savedWords) : savedWords[i].word # lastOp.arg

\* C5: after a restart, once the startup has settled, savedWords is the
\* collection held before the restart, entry for entry and in order.
C5_RestartReproducesCollection ==
    (Ready /\ beforeRestart # Null) => savedWords = beforeRestart[1]

C5_Witness ==
    /\ Ready /\ lastOp.op = "loaded"
    /\ beforeRestart # Null
    /\ Len(beforeRestart[1]) = 2
    /\ savedWords = beforeRestart[1]

\* C6: when the model's reply is an object carrying an error message M, the
\* search fails: error holds a message containing M and currentWord is null
\* when the search has completed.
C6_ModelErrorIsShown ==
    [][\A w \in Words :
          (lastOp'.op = "settle" /\ executeSearchSettle(w, ErrorReply(NotAWord))) =>
              /\ error' # Null
              /\ Contains(error'[1], NotAWord)
              /\ currentWord' = Null
              /\ wordDetails' = wordDetails]_vars

C6_Witness ==
    /\ Settled(FALSE)
    /\ error # Null
    /\ Contains(error[1], NotAWord)
    /\ currentWord = Null

\* C7: a reply without an error field that lacks syllabification, etymology,
\* synonyms or forms fails with the incomplete-data error, and wordDetails
\* is not set from it.
C7_IncompleteReplyIsRejected ==
    [][\A w \in Words : \A k \in SchemaFields :
          (lastOp'.op = "settle" /\ executeSearchSettle(w, MissingReply(w, k))) =>
              /\ error' = Some(FailedMessage(w, IncompleteMessage))
              /\ wordDetails' = wordDetails
              /\ wordDetails' # Some(Without(DetailsOf(w, LinkForms), k))]_vars

C7_Witness ==
    /\ Settled(FALSE)
    /\ error = Some(FailedMessage(lastOp.arg, IncompleteMessage))
    /\ wordDetails = Null

\* C8: whenever error is set, wordDetails and currentWord are null, so the
\* error panel is never shown together with the content panels.
C8_ErrorMeansNoContent ==
    error # Null => (wordDetails = Null /\ currentWord = Null)

\* C9: while a fetch is pending isLoading is true, and at most one fetch is
\* in flight at any time.
C9_OneFetchWhileLoading ==
    /\ inflight # EmptyBag => isLoading
    /\ BagCardinality(inflight) <= 1

\* C10: whenever a save or a delete has settled, the text stored under the
\* key is the serialization of the current savedWords.
C10_StorageHoldsCollection ==
    (Ready /\ lastOp.op \in {"save", "delete"}) =>
        /\ storage # Null
        /\ JsonParse(storage[1]).ok
        /\ Plain(JsonParse(storage[1]).node) = savedWords
        /\ storage[1] = JsonStringify(savedWords)

C10_Witness ==
    /\ lastOp = Op("save", <<>>, TRUE)
    /\ Len(savedWords) = 2
    /\ storage # Null
    /\ Plain(JsonParse(storage[1]).node) = savedWords

\* C11: at startup the load effect yields the stored sequence when the key
\* holds valid data, and nothing when the key is absent or its content does
\* not parse: savedWords then stays empty and no error is set.
C11_LoadAtStartup ==
    /\ [][(pc = "mount" /\ pc' # "mount") =>
             /\ error' = Null
             /\ IF storage # Null /\ JsonParse(storage[1]).ok
                THEN /\ pending' = Some(Plain(JsonParse(storage[1]).node))
                     /\ pc' = "loaded"
                ELSE /\ pending' = Null
                     /\ pc' = "ready"
                     /\ savedWords' = <<>>]_vars
    /\ [][(pc = "loaded" /\ pc' = "rendered") =>
             savedWords' = pending[1] /\ error' = Null]_vars

C11_Witness ==
    /\ Ready /\ lastOp.op = "mount"
    /\ pending = Null
    /\ savedWords = <<>>
    /\ error = Null

\* C12: saving the displayed word, when it is not saved yet and its details
\* are present, puts one new entry for it at the end of savedWords and
\* leaves the entries before it as they were.
C12_SaveAppendsAtEnd ==
    [][(lastOp'.op = "save" /\ lastOp'.ok) =>
          savedWords' = Append(savedWords, [word |-> currentWord[1],
                                            details |-> wordDetails[1],
                                            similarWords |-> similarWords])]_vars

\* C13: the validator decides in a fixed order: a text that does not parse
\* fails with the parse failure; otherwise an object carrying an error field
\* fails with that message, also when required fields are missing;
\* otherwise an object in which syllabification, etymology, synonyms and
\* forms are all present, whatever their values, is returned as it is.
C13_ValidatorOrder ==
    [][\A w \in Words :
          /\ (lastOp'.op = "settle" /\ lastOp'.arg = w
                 /\ executeSearchSettle(w, TruncatedReply(w))) =>
                 /\ engine' # Null
                 /\ error' = Some(FailedMessage(w,
                                SyntaxErrorMessage(TruncatedReply(w).text, engine'[1])))
          /\ \A d \in ReplyObjects(w) :
                 (lastOp'.op = "settle" /\ lastOp'.arg = w
                    /\ executeSearchSettle(w, ObjectReply(d))) =>
                    IF "error" \in DOMAIN d
                    THEN error' = Some(FailedMessage(w, d.error))
                    ELSE IF SchemaFields \subseteq DOMAIN d
                    THEN wordDetails' = Some(d) /\ error' = Null
                    ELSE error' # Null]_vars

\* C14: searches are not cancelled: starting a search leaves the fetches in
\* flight as they are, and every response is applied to the displayed state
\* when it arrives, whatever is displayed then, so that the late response
\* of an earlier search overwrites what a later search displayed.
C14_LateResponseIsApplied ==
    /\ [][lastOp'.op \in {"submit", "doubleClick"} =>
             \A w \in DOMAIN inflight :
                 CopiesIn(w, inflight') >= CopiesIn(w, inflight)]_vars
    /\ [][lastOp'.op = "settle" =>
             /\ ~isLoading'
             /\ IF lastOp'.ok
                THEN /\ wordDetails' = Some(DetailsOf(lastOp'.arg, LinkForms))
                     /\ currentWord' = currentWord
                ELSE /\ error' # Null
                     /\ currentWord' = Null
                     /\ wordDetails' = wordDetails]_vars

C14_Witness ==
    /\ Settled(TRUE)
    /\ inflight = EmptyBag
    /\ currentWord # Null
    /\ currentWord[1] # lastOp.arg
    /\ ~isSaved(currentWord[1])
    /\ wordDetails = Some(DetailsOf(lastOp.arg, LinkForms))

\* C15: whenever wordDetails is set, currentWord is set and wordDetails is
\* the response fetched for currentWord or the snapshot saved under it.
C15_WordAndDetailsAgree ==
    wordDetails # Null =>
        /\ currentWord # Null
        /\ \/ wordDetails[1] = DetailsOf(currentWord[1], LinkForms)
           \/ \E i \in 1..Len(savedWords) :
                 /\ savedWords[i].word = currentWord[1]
                 /\ savedWords[i].details = wordDetails[1]

\* C16: selecting a saved entry S restores it: currentWord, wordDetails and
\* similarWords are those of S, the search box holds S.word, error is null,
\* isLoading is false, the sidebar is closed and savedWords is unchanged.
C16_SelectRestoresEntry ==
    [][lastOp'.op = "select" =>
          /\ \E i \in 1..Len(savedWords) :
                LET S == savedWords[i]
                IN  /\ currentWord' = Some(S.word)
                    /\ wordDetails' = Some(S.details)
                    /\ similarWords' = S.similarWords
                    /\ wordToSearch' = S.word
          /\ error' = Null
          /\ ~isLoading'
          /\ ~isSidebarOpen'
          /\ savedWords' = savedWords
          /\ storage' = storage]_vars

C16_Witness ==
    /\ lastOp.op = "select"
    /\ similarWords # <<>>
    /\ error = Null /\ ~isLoading /\ ~isSidebarOpen
    /\ \E i \in 1..Len(savedWords) :
          /\ currentWord = Some(savedWords[i].word)
          /\ wordDetails = Some(savedWords[i].details)
          /\ similarWords = savedWords[i].similarWords
          /\ wordToSearch = savedWords[i].word

\* C17: a saved entry is a snapshot: handleSaveWord stores the word, the
\* details and the similar words current at that moment, and no handler
\* other than the deletion of that word changes the entry afterwards, in
\* savedWords or in the stored text.
StoredEntries ==
    IF storage # Null /\ JsonParse(storage[1]).ok
    THEN Range(Plain(JsonParse(storage[1]).node)) ELSE {}

C17_SavedEntryIsSnapshot ==
    /\ [][(lastOp'.op = "save" /\ lastOp'.ok) =>
             /\ currentWord # Null /\ wordDetails # Null
             /\ [word |-> currentWord[1], details |-> wordDetails[1],
                 similarWords |-> similarWords] \in Range(savedWords')]_vars
    /\ [][lastOp'.op \in {"submit", "doubleClick", "settle", "other", "save",
                          "select", "delete"} =>
             \A i \in 1..Len(savedWords) :
                 (lastOp'.op = "delete" /\ lastOp'.arg = savedWords[i].word)
                 \/ (/\ savedWords[i] \in Range(savedWords')
                     /\ IF lastOp'.op \in {"save", "delete"}
                        THEN storage' = Some(JsonStringify(savedWords'))
                        ELSE storage' = storage)]_vars
    /\ []((Ready /\ lastOp.op = "save") => Range(savedWords) = StoredEntries)

C17_Witness ==
    /\ lastOp.op = "other"
    /\ currentWord # Null
    /\ similarWords # <<>>
    /\ \E i \in 1..Len(savedWords) :
          /\ savedWords[i].word = currentWord[1]
          /\ savedWords[i].similarWords = <<>>
          /\ savedWords[i] \in StoredEntries

\* C18: when the application starts with a valid non-empty collection
\* stored, the startup never replaces the stored text, and once the startup
\* has settled the stored text is that of savedWords.
ValidNonEmpty(st) ==
    /\ st # Null
    /\ JsonParse(st[1]).ok
    /\ Plain(JsonParse(st[1]).node) # <<>>

C18_StartupKeepsStorage ==
    /\ [][(pc = "mount" /\ pc' # "mount" /\ ValidNonEmpty(storage)) =>
             storage' = storage]_vars
    /\ []((Ready /\ lastOp.op = "loaded") => storage = Some(JsonStringify(savedWords)))

\* C19: when every remote call comes to an end, every search that was
\* started completes and isLoading does not stay set; when no fetch is in
\* flight isLoading is false and the search button is enabled for a
\* non-blank word.
C19_LoadingNeverSticks ==
    /\ [](inflight = EmptyBag =>
            /\ ~isLoading
            /\ (Trim(wordToSearch) # <<>> => ~searchDisabled))
    /\ \A w \in Words :
          BagIn(w, inflight) ~>
              (~BagIn(w, inflight) \/ (lastOp.op = "settle" /\ lastOp.arg = w))
    /\ isLoading ~> ~isLoading

C19_Witness ==
    /\ Settled(FALSE)
    /\ inflight = EmptyBag
    /\ ~isLoading
    /\ Trim(wordToSearch) # <<>>
    /\ ~searchDisabled

=============================================================================
